---- MODULE Spec2Model ----
(***************************************************************************)
(* Model of the CLI lifecycle manager of moondream-station:                *)
(*   app/hypervisor/clivisor.py   (CLIVisor, install_moondream_cli)        *)
(*   app/inference_client/misc.py (parse_version, check_platform,          *)
(*                                 download_file)                          *)
(* The file system the code touches is one record, fs.  Each caller of the *)
(* CLIVisor has a program counter; install_moondream_cli and               *)
(* check_for_update are single steps, _download_and_extract_cli is a step  *)
(* per file-system operation (rmtree, download, extract, os.remove).       *)
(***************************************************************************)
EXTENDS Integers, Sequences, FiniteSets, TLC

\* ------------------------------------------------------------------ bounds
\* Longest initial content of a profile file, in tokens.
MaxLen == 3
\* Operations one caller starts in a run.
MaxOps == 2
\* Longest argument of parse_version, in characters.
MaxVersionLen == 4
\* Most components of the version strings check_for_update compares.
MaxParts == 3

\* --------------------------------------------------------------- constants
Procs == {"A", "B"}
Platforms == {"macOS", "Linux", "other"}

\* path_line of install_moondream_cli, a newline, and a character that does
\* not occur in path_line: the alphabet of the modelled profile files.
PathLine == "export PATH=\"$HOME/.local/bin:$PATH\""
NL == "\n"
Hash == "#"
Tokens == {PathLine, NL, Hash}

\* The files of <base>/moondream_cli: the entry point and one more module.
Entry == "moondream-cli.py"
Lib == "lib.py"
FileNames == {Entry, Lib}
NoFile == "none"

\* Download URLs.  U0 is the release a prior run installed.
U0 == "u0"
U1 == "u1"
U2 == "u2"
U3 == "u3"
\* What the archive behind each URL holds: U2 dropped lib.py, U3 is a broken
\* release without the entry point.
PackageFiles(u) ==
    CASE u = U0 -> {Entry, Lib}
      [] u = U1 -> {Entry, Lib}
      [] u = U2 -> {Entry}
      [] OTHER -> {Lib}

\* Version strings, as sequences of characters.
V10 == <<"1", ".", "0">>
Vv10 == <<"v", "1", ".", "0">>
V11 == <<"1", ".", "1">>
V2 == <<"2">>
VersionStrings == {V10, Vv10, V11, V2}
\* What config.active_cli holds in the modelled runs.
ActiveVersions == {V10, Vv10, V11}
\* What manifest.update() can load into manifest.current_cli.
Releases ==
    { [version |-> V10, url |-> U1],
      [version |-> V11, url |-> U2],
      [version |-> V2, url |-> U3] }

\* ---------------------------------------------------------- pure helpers
RECURSIVE SplitFrom(_, _, _, _)
SplitFrom(s, i, cur, acc) ==
    IF i > Len(s)
    THEN IF cur = <<>> THEN acc ELSE Append(acc, cur)
    ELSE IF s[i] = NL
         THEN SplitFrom(s, i + 1, <<>>, Append(acc, cur))
         ELSE SplitFrom(s, i + 1, Append(cur, s[i]), acc)

\* str.splitlines(): the lines of s without their line ends; a final line end
\* starts no further line.
SplitLines(s) == SplitFrom(s, 1, <<>>, <<>>)

\* `path_line in lines`
InLines(line, lines) == \E i \in 1..Len(lines) : lines[i] = line

\* How many lines of a text are exactly path_line.
CountPathLines(text) ==
    LET lines == SplitLines(text)
    IN  Cardinality({i \in 1..Len(lines) : lines[i] = <<PathLine>>})

\* A profile file: absent, or its text as a sequence of tokens.
AbsentFile == [exists |-> FALSE, text |-> <<>>]
FileOf(t) == [exists |-> TRUE, text |-> t]

\* path_files of the platform (macOS, and every other platform).
MacPathFiles == <<".zprofile", ".zshrc", ".bash_profile", ".bashrc">>
OtherPathFiles == <<".profile", ".bash_profile", ".zshrc", ".bashrc">>
PathFiles(plat) == IF plat = "macOS" THEN MacPathFiles ELSE OtherPathFiles
ProfileFiles == {".zprofile", ".zshrc", ".bash_profile", ".bashrc", ".profile"}
SeqRange(s) == {s[i] : i \in 1..Len(s)}

\* ------------------------------------------------------- parse_version
Digits == <<"0", "1", "2", "3", "4", "5", "6", "7", "8", "9">>
IsDigit(c) == \E i \in 1..Len(Digits) : Digits[i] = c
DigitVal(c) == (CHOOSE i \in 1..Len(Digits) : Digits[i] = c) - 1

RECURSIVE SplitOnFrom(_, _, _, _, _)
SplitOnFrom(s, sep, i, cur, acc) ==
    IF i > Len(s) THEN Append(acc, cur)
    ELSE IF s[i] = sep
         THEN SplitOnFrom(s, sep, i + 1, <<>>, Append(acc, cur))
         ELSE SplitOnFrom(s, sep, i + 1, Append(cur, s[i]), acc)

\* str.split(sep): the pieces between the separators, empty ones included.
SplitOn(s, sep) == SplitOnFrom(s, sep, 1, <<>>, <<>>)

\* Whether int(part) succeeds, for a part of digits, letters and dots.
IntOK(part) == Len(part) > 0 /\ \A i \in 1..Len(part) : IsDigit(part[i])

RECURSIVE IntVal(_)
IntVal(part) ==
    IF part = <<>> THEN 0
    ELSE 10 * IntVal(SubSeq(part, 1, Len(part) - 1)) + DigitVal(part[Len(part)])

RECURSIVE LStrip(_)
LStrip(s) == IF Len(s) > 0 /\ s[1] \in {"v", "V"} THEN LStrip(Tail(s)) ELSE s

\* parse_version with every leading "v" and "V" dropped.
parse_version_lstrip(version) ==
    LET parts == SplitOn(LStrip(version), ".")
    IN  IF \A i \in 1..Len(parts) : IntOK(parts[i])
        THEN [ok |-> TRUE, tuple |-> [i \in 1..Len(parts) |-> IntVal(parts[i])]]
        ELSE [ok |-> FALSE, tuple |-> <<>>]

\* parse_version: ok is FALSE when int() raises ValueError.
parse_version(version) ==
    LET v == IF Len(version) > 0 /\ version[1] \in {"v", "V"}
             THEN Tail(version) ELSE version
        parts == SplitOn(v, ".")
    IN  IF \A i \in 1..Len(parts) : IntOK(parts[i])
        THEN [ok |-> TRUE, tuple |-> [i \in 1..Len(parts) |-> IntVal(parts[i])]]
        ELSE [ok |-> FALSE, tuple |-> <<>>]

\* The wrapper script written for the resolved interpreter and entry point.
VenvPyPath == "<base>/.venv/bin/python"
CliPyPath == "<base>/moondream_cli/moondream-cli.py"
Script(venv_py, cli_py) ==
    <<"#!/usr/bin/env sh", NL, "exec", venv_py, cli_py, "$@", NL>>
NoWrapper == [exists |-> FALSE, text |-> <<>>, mode |-> 0]
\* 0o755
Mode755 == 493

\* ------------------------------------------------------------------ state
VARIABLES
    platform,    \* PLATFORM = check_platform()
    venvPy,      \* whether <base>/.venv/bin/python exists
    denied,      \* the profile files whose read or write raises OSError
    fs,          \* the file system: see TypeOK
    manifest,    \* manifest.current_cli
    active_cli,  \* config.active_cli
    callers,     \* the callers that take part in the run
    pc,          \* each caller's position
    op,          \* each caller's running (or last) operation
    prev,        \* the operation the caller ran before, and how it ended
    url,         \* _download_and_extract_cli's argument
    status,      \* what check_for_update returned to the caller
    dlRet,       \* what _download_and_extract_cli returned to the caller
    err,         \* the exception that left the caller's operation
    pre,         \* the file system when the caller's operation started
    trace,       \* what the caller's operation did, in order
    opsLeft,     \* operations the caller may still start
    versionArg,  \* the argument of a parse_version call
    parsed       \* what that call returned, once it has been made

vars == <<platform, venvPy, denied, fs, manifest, active_cli, callers,
          pc, op, prev, url, status, dlRet, err, pre, trace, opsLeft,
          versionArg, parsed>>
\* What no operation of the lifecycle manager touches.
env == <<platform, venvPy, denied, callers, versionArg, parsed>>

\* `os.path.exists(cli_path)` / `cli_py.exists()`
CliExists(f) == f.dirExists /\ f.files[Entry] # NoFile

NoFiles == [n \in FileNames |-> NoFile]

\* ------------------------------------------------ install_moondream_cli
\* Which precondition of install_moondream_cli fails, if any.
PreconditionError(f, py) ==
    IF ~CliExists(f) THEN "CLI file not found"
    ELSE IF ~py THEN "Python interpreter not found"
    ELSE "none"

\* The wrapper after write_text(script) and chmod(0o755).
WriteWrapper(w) ==
    [exists |-> TRUE, text |-> Script(VenvPyPath, CliPyPath), mode |-> Mode755]

\* The /usr/local/bin symlink: made on Linux when nothing is there and the
\* symlink call does not raise (symOK); left alone otherwise.
LinkWrapper(plat, link, symOK) ==
    IF plat = "Linux" /\ link = "none" /\ symOK THEN "wrapper" ELSE link

\* UpdateRc without the `path_line not in lines` test.
UpdateRcAlways(rc, isDenied) ==
    IF isDenied THEN rc
    ELSE LET lines == IF rc.exists THEN SplitLines(rc.text) ELSE <<>>
         IN  FileOf(rc.text
                    \o (IF lines # <<>> THEN <<NL>> ELSE <<>>)
                    \o <<PathLine, NL>>)

\* One pass of the loop body over a profile file rc.
UpdateRc(rc, isDenied) ==
    IF isDenied THEN rc
    ELSE LET lines == IF rc.exists THEN SplitLines(rc.text) ELSE <<>>
         IN  IF ~InLines(<<PathLine>>, lines)
             THEN FileOf(rc.text
                         \o (IF lines # <<>> THEN <<NL>> ELSE <<>>)
                         \o <<PathLine, NL>>)
             ELSE rc

\* UpdateProfiles with the loop skipping the files that do not exist.
UpdateProfilesExisting(plat, profiles, den) ==
    [n \in ProfileFiles |->
        IF n \in SeqRange(PathFiles(plat)) /\ profiles[n].exists
        THEN UpdateRc(profiles[n], n \in den)
        ELSE profiles[n]]

\* The profile files after the loop over path_files.
UpdateProfiles(plat, profiles, den) ==
    [n \in ProfileFiles |->
        IF n \in SeqRange(PathFiles(plat))
        THEN UpdateRc(profiles[n], n \in den)
        ELSE profiles[n]]

\* The file system after install_moondream_cli ran past its preconditions.
InstallFS(f, plat, den, symOK) ==
    [f EXCEPT !.binDir = TRUE,
              !.wrapper = WriteWrapper(f.wrapper),
              !.symlink = LinkWrapper(plat, f.symlink, symOK),
              !.profiles = UpdateProfiles(plat, f.profiles, den)]

\* InstallResult with bin_dir.mkdir moved before the two checks.
InstallResultMkdirFirst(f, plat, den, py, symOK) ==
    LET e == PreconditionError(f, py)
    IN  IF e # "none"
        THEN [err |-> e, fs |-> [f EXCEPT !.binDir = TRUE]]
        ELSE [err |-> "none", fs |-> InstallFS(f, plat, den, symOK)]

\* install_moondream_cli: the exception it raises ("none": it returns the
\* wrapper) and the file system it leaves.  Both checks come before
\* bin_dir.mkdir, the first write.
InstallResult(f, plat, den, py, symOK) ==
    LET e == PreconditionError(f, py)
    IN  IF e # "none"
        THEN [err |-> e, fs |-> f]
        ELSE [err |-> "none", fs |-> InstallFS(f, plat, den, symOK)]

\* install_moondream_cli as a step of caller p, whose operation did `tr` so
\* far: raises on a failed precondition, else installs and goes on at `next`.
InstallStep(p, next, tr) ==
    \E symOK \in BOOLEAN :
        LET r == InstallResult(fs, platform, denied, venvPy, symOK)
        IN  /\ fs' = r.fs
            /\ err' = [err EXCEPT ![p] = r.err]
            /\ pc' = [pc EXCEPT ![p] = IF r.err # "none" THEN "raised" ELSE next]
            /\ trace' = [trace EXCEPT ![p] =
                   Append(tr, IF r.err # "none" THEN "install_raised"
                                               ELSE "install")]

\* ---------------------------------------------------- operation framing
Ended(p) == pc[p] \in {"idle", "done", "raised"}

\* Caller p starts operation o.
Begin(p, o) ==
    /\ p \in callers
    /\ Ended(p)
    /\ opsLeft[p] > 0
    /\ opsLeft' = [opsLeft EXCEPT ![p] = @ - 1]
    /\ prev' = [prev EXCEPT ![p] = [op |-> op[p], end |-> pc[p]]]
    /\ op' = [op EXCEPT ![p] = o]
    /\ pre' = [pre EXCEPT ![p] = fs]
    /\ url' = [url EXCEPT ![p] = "none"]

\* A direct call of install_moondream_cli(cli_path, venv_path).
InstallCall(p) ==
    /\ Begin(p, "install")
    /\ InstallStep(p, "done", <<>>)
    /\ UNCHANGED <<env, manifest, active_cli, status, dlRet>>

\* ------------------------------------------- _download_and_extract_cli
\* Where the caller goes on when _download_and_extract_cli has returned.
AfterDownload(o) == IF o = "boot" THEN "boot_inst1" ELSE "upd_inst"

\* The directory after shutil.rmtree: gone, or, when rmtree raised, still
\* there with the files `kept` that it had not yet removed.
Rmtree(f, ok, kept) ==
    IF ok
    THEN [f EXCEPT !.dirExists = FALSE, !.files = NoFiles]
    ELSE [f EXCEPT !.files = [n \in FileNames |->
                                 IF n \in kept THEN f.files[n] ELSE NoFile]]

\* Lines 148-162 (and the evaluation of the argument, manifest.current_cli
\* ["url"], by the caller): remove an existing directory, go on either way.
DlRmtree(p) ==
    /\ pc[p] = "dl_rm"
    /\ url' = [url EXCEPT ![p] = manifest.url]
    /\ IF fs.dirExists
       THEN \/ /\ fs' = Rmtree(fs, TRUE, {})
               /\ trace' = [trace EXCEPT ![p] = Append(@, "rmtree")]
            \/ /\ \E kept \in SUBSET {n \in FileNames : fs.files[n] # NoFile} :
                      fs' = Rmtree(fs, FALSE, kept)
               /\ trace' = [trace EXCEPT ![p] = Append(@, "rmtree_failed")]
       ELSE UNCHANGED <<fs, trace>>
    /\ pc' = [pc EXCEPT ![p] = "dl_fetch"]
    /\ UNCHANGED <<env, manifest, active_cli, op, prev, status, dlRet, err,
                   pre, opsLeft>>

\* download_file(url, tar_path): the archive of `u` is at tar_path, or the
\* download raised and left what was there or a partial file.
DlFetch(p) ==
    /\ pc[p] = "dl_fetch"
    /\ \/ /\ fs' = [fs EXCEPT !.tarFile = url[p]]
          /\ trace' = [trace EXCEPT ![p] = Append(@, "fetch")]
          /\ pc' = [pc EXCEPT ![p] = "dl_extract"]
       \/ /\ \E t \in {fs.tarFile, "partial"} : fs' = [fs EXCEPT !.tarFile = t]
          /\ trace' = [trace EXCEPT ![p] = Append(@, "fetch_failed")]
          /\ pc' = [pc EXCEPT ![p] = "dl_except"]
    /\ UNCHANGED <<env, manifest, active_cli, op, prev, url, status, dlRet,
                   err, pre, opsLeft>>

\* The directory after the members `got` of the archive of u were extracted.
Extracted(f, u, got) ==
    [f EXCEPT !.dirExists = f.dirExists \/ got # {},
              !.files = [n \in FileNames |->
                            IF n \in got THEN u ELSE f.files[n]]]

\* tarfile.open(tar_path) and extractall: everything is extracted, or the
\* archive cannot be read or the extraction raises part of the way.
DlExtract(p) ==
    /\ pc[p] = "dl_extract"
    /\ IF fs.tarFile \in {"none", "partial"}
       THEN /\ pc' = [pc EXCEPT ![p] = "dl_except"]
            /\ UNCHANGED <<fs, trace>>
       ELSE \/ /\ fs' = Extracted(fs, fs.tarFile, PackageFiles(fs.tarFile))
               /\ trace' = [trace EXCEPT ![p] = Append(@, "extract")]
               /\ pc' = [pc EXCEPT ![p] = "dl_remove"]
            \/ /\ \E got \in SUBSET PackageFiles(fs.tarFile) :
                      /\ got # PackageFiles(fs.tarFile)
                      /\ fs' = Extracted(fs, fs.tarFile, got)
               /\ trace' = [trace EXCEPT ![p] = Append(@, "extract_failed")]
               /\ pc' = [pc EXCEPT ![p] = "dl_except"]
    /\ UNCHANGED <<env, manifest, active_cli, op, prev, url, status, dlRet,
                   err, pre, opsLeft>>

\* DlResult as `return True`.
DlResultTrue(f) == TRUE

\* What _download_and_extract_cli returns after a complete extraction.
DlResult(f) == CliExists(f)

\* CleanupTar without the os.remove.
CleanupTarKeep(t) == t

\* The archive after the except handler: removed if it exists.
CleanupTar(t) == "none"

\* Lines 174-177: os.remove(tar_path), return os.path.isfile(path). When
\* the archive is no longer there os.remove raises, into the handler.
DlRemove(p) ==
    /\ pc[p] = "dl_remove"
    /\ IF fs.tarFile = "none"
       THEN /\ pc' = [pc EXCEPT ![p] = "dl_except"]
            /\ UNCHANGED <<fs, dlRet>>
       ELSE /\ fs' = [fs EXCEPT !.tarFile = "none"]
            /\ dlRet' = [dlRet EXCEPT ![p] = DlResult(fs)]
            /\ pc' = [pc EXCEPT ![p] = AfterDownload(op[p])]
    /\ UNCHANGED <<env, manifest, active_cli, op, prev, url, status, err,
                   pre, trace, opsLeft>>

\* Lines 178-182: the except handler.
DlExcept(p) ==
    /\ pc[p] = "dl_except"
    /\ fs' = [fs EXCEPT !.tarFile = CleanupTar(@)]
    /\ dlRet' = [dlRet EXCEPT ![p] = FALSE]
    /\ pc' = [pc EXCEPT ![p] = AfterDownload(op[p])]
    /\ UNCHANGED <<env, manifest, active_cli, op, prev, url, status, err,
                   pre, trace, opsLeft>>

\* ------------------------------------------------------ check_for_update
\* manifest.update(): current_cli is reloaded from the remote manifest.
ManifestUpdate(m) == Releases

\* OutOfDate with the `if` always taken.
OutOfDateAlways(active, version) == TRUE

\* Python's < on tuples of integers: the first difference decides, and a
\* proper prefix is less.
TupleLess(a, b) ==
    \/ \E k \in 1..Len(a) :
          /\ k <= Len(b)
          /\ a[k] < b[k]
          /\ \A j \in 1..(k - 1) : a[j] = b[j]
    \/ /\ Len(a) < Len(b)
       /\ \A j \in 1..Len(a) : a[j] = b[j]

\* OutOfDate as an ordering of the parsed versions.
OutOfDateOrdered(active, version) ==
    TupleLess(parse_version(active).tuple, parse_version(version).tuple)

\* `self.config.active_cli != self.manifest.current_cli["version"]`
OutOfDate(active, version) == active # version

\* ret_value of check_for_update.
UpdateStatus(active, m) ==
    [ood |-> OutOfDate(active, m.version), version |-> m.version]

\* CheckCall with the refresh done whatever update_manifest is.
CheckCallAlwaysRefresh(p) ==
    /\ Begin(p, "check")
    /\ \E update_manifest \in BOOLEAN :
          /\ manifest' \in ManifestUpdate(manifest)
          /\ trace' = [trace EXCEPT ![p] =
                          IF update_manifest THEN <<"refresh">> ELSE <<>>]
    /\ status' = [status EXCEPT ![p] = UpdateStatus(active_cli, manifest')]
    /\ pc' = [pc EXCEPT ![p] = "done"]
    /\ err' = [err EXCEPT ![p] = "none"]
    /\ UNCHANGED <<env, fs, active_cli, dlRet>>

\* check_for_update(update_manifest), called directly.
CheckCall(p) ==
    /\ Begin(p, "check")
    /\ \E update_manifest \in BOOLEAN :
          /\ IF update_manifest
             THEN manifest' \in ManifestUpdate(manifest)
             ELSE UNCHANGED manifest
          /\ trace' = [trace EXCEPT ![p] =
                          IF update_manifest THEN <<"refresh">> ELSE <<>>]
    /\ status' = [status EXCEPT ![p] = UpdateStatus(active_cli, manifest')]
    /\ pc' = [pc EXCEPT ![p] = "done"]
    /\ err' = [err EXCEPT ![p] = "none"]
    /\ UNCHANGED <<env, fs, active_cli, dlRet>>

\* ----------------------------------------------------------------- update
\* Lines 126-128: check_for_update(), return when not out of date.
UpdateStart(p) ==
    /\ Begin(p, "update")
    /\ manifest' \in ManifestUpdate(manifest)
    /\ status' = [status EXCEPT ![p] = UpdateStatus(active_cli, manifest')]
    /\ pc' = [pc EXCEPT ![p] = IF status'[p].ood THEN "dl_rm" ELSE "done"]
    /\ trace' = [trace EXCEPT ![p] = <<"refresh">>]
    /\ err' = [err EXCEPT ![p] = "none"]
    /\ UNCHANGED <<env, fs, active_cli, dlRet>>

\* UpdateInstall storing the installed version in config.active_cli.
UpdateInstallPersist(p) ==
    /\ pc[p] = "upd_inst"
    /\ InstallStep(p, "done", trace[p])
    /\ active_cli' = IF pc'[p] = "done" THEN manifest.version ELSE active_cli
    /\ UNCHANGED <<env, manifest, op, prev, url, status, dlRet, pre, opsLeft>>

\* Lines 131-134: install_moondream_cli after the download.
UpdateInstall(p) ==
    /\ pc[p] = "upd_inst"
    /\ InstallStep(p, "done", trace[p])
    /\ UNCHANGED <<env, manifest, active_cli, op, prev, url, status, dlRet,
                   pre, opsLeft>>

\* ------------------------------------------------------------------- boot
\* BootStart with the platform checked first: on a platform other than macOS
\* and Linux boot raises before it does anything.
BootStartFailFast(p) ==
    /\ Begin(p, "boot")
    /\ pc' = [pc EXCEPT ![p] =
                 IF platform \notin {"macOS", "Linux"} THEN "raised"
                 ELSE IF ~CliExists(fs) THEN "dl_rm" ELSE "boot_inst2"]
    /\ trace' = [trace EXCEPT ![p] =
                    IF platform \notin {"macOS", "Linux"}
                    THEN <<"unsupported">> ELSE <<>>]
    /\ err' = [err EXCEPT ![p] =
                  IF platform \notin {"macOS", "Linux"}
                  THEN "unsupported platform" ELSE "none"]
    /\ UNCHANGED <<env, fs, manifest, active_cli, status, dlRet>>

\* BootStart without the download: boot goes to the wrapper installation
\* whether the entry point is there or not.
BootStartNoDownload(p) ==
    /\ Begin(p, "boot")
    /\ pc' = [pc EXCEPT ![p] = "boot_inst2"]
    /\ trace' = [trace EXCEPT ![p] = <<>>]
    /\ err' = [err EXCEPT ![p] = "none"]
    /\ UNCHANGED <<env, fs, manifest, active_cli, status, dlRet>>

\* Lines 36-38: download when the entry point is not there.
BootStart(p) ==
    /\ Begin(p, "boot")
    /\ pc' = [pc EXCEPT ![p] = IF ~CliExists(fs) THEN "dl_rm" ELSE "boot_inst2"]
    /\ trace' = [trace EXCEPT ![p] = <<>>]
    /\ err' = [err EXCEPT ![p] = "none"]
    /\ UNCHANGED <<env, fs, manifest, active_cli, status, dlRet>>

\* BootInstall1 looking at the result of the download: boot returns quietly
\* when _download_and_extract_cli returned False.
BootInstall1Checked(p) ==
    /\ pc[p] = "boot_inst1"
    /\ IF dlRet[p]
       THEN InstallStep(p, "boot_inst2", trace[p])
       ELSE /\ pc' = [pc EXCEPT ![p] = "done"]
            /\ UNCHANGED <<fs, err, trace>>
    /\ UNCHANGED <<env, manifest, active_cli, op, prev, url, status, dlRet,
                   pre, opsLeft>>

\* Lines 39-42: install_moondream_cli inside the `if`.
BootInstall1(p) ==
    /\ pc[p] = "boot_inst1"
    /\ InstallStep(p, "boot_inst2", trace[p])
    /\ UNCHANGED <<env, manifest, active_cli, op, prev, url, status, dlRet,
                   pre, opsLeft>>

\* Lines 44-47: install_moondream_cli on every boot.
BootInstall2(p) ==
    /\ pc[p] = "boot_inst2"
    /\ InstallStep(p, "boot_launch", trace[p])
    /\ UNCHANGED <<env, manifest, active_cli, op, prev, url, status, dlRet,
                   pre, opsLeft>>

\* What the try block of boot does: launch_cli_mac or launch_cli_ubuntu
\* spawn a process unless Popen raises; any other platform raises ValueError.
LaunchOutcome(plat, popenOK) ==
    IF plat \in {"macOS", "Linux"}
    THEN IF popenOK THEN "spawn" ELSE "launch_failed"
    ELSE "unsupported"

\* AfterLaunch without the try block.
AfterLaunchRaise(outcome) == IF outcome = "spawn" THEN "done" ELSE "raised"

\* `except Exception as e: logger.error(...)`: boot goes on after any outcome.
AfterLaunch(outcome) == "done"

\* Lines 49-70.
BootLaunch(p) ==
    /\ pc[p] = "boot_launch"
    /\ \E popenOK \in BOOLEAN :
          LET outcome == LaunchOutcome(platform, popenOK)
          IN  /\ trace' = [trace EXCEPT ![p] = Append(@, outcome)]
              /\ pc' = [pc EXCEPT ![p] = AfterLaunch(outcome)]
              /\ err' = [err EXCEPT ![p] =
                            IF AfterLaunch(outcome) = "raised"
                            THEN outcome ELSE "none"]
    /\ UNCHANGED <<env, fs, manifest, active_cli, op, prev, url, status,
                   dlRet, pre, opsLeft>>

\* ------------------------------------------------------- initial states
RECURSIVE Texts(_)
\* Every text of at most k tokens.
Texts(k) ==
    IF k = 0 THEN {<<>>}
    ELSE LET shorter == Texts(k - 1)
         IN  shorter \cup {Append(t, c) : t \in shorter, c \in Tokens}

FreshHome ==
    [binDir |-> FALSE, wrapper |-> NoWrapper, symlink |-> "none"]
\* A home where something else is at the wrapper's and the symlink's place.
UsedHome ==
    [binDir |-> TRUE,
     wrapper |-> [exists |-> TRUE, text |-> <<Hash>>, mode |-> 0],
     symlink |-> "other"]

\* <base>/moondream_cli before the run: absent, the release U0, or a
\* directory without the entry point.
InitDirs ==
    { [dirExists |-> FALSE, files |-> NoFiles],
      [dirExists |-> TRUE, files |-> [n \in FileNames |-> U0]],
      [dirExists |-> TRUE, files |-> [n \in FileNames |->
                                        IF n = Lib THEN U0 ELSE NoFile]] }

MakeFS(d, h, t, profiles) ==
    [dirExists |-> d.dirExists, files |-> d.files, tarFile |-> t,
     binDir |-> h.binDir, wrapper |-> h.wrapper, symlink |-> h.symlink,
     profiles |-> profiles]

\* No parse_version call has been made.
NotParsed == [called |-> FALSE, ok |-> FALSE, tuple |-> <<>>]

InitCallers(cs) ==
    /\ callers = cs
    /\ parsed = NotParsed
    /\ pc = [p \in Procs |-> "idle"]
    /\ op = [p \in Procs |-> "none"]
    /\ prev = [p \in Procs |-> [op |-> "none", end |-> "idle"]]
    /\ url = [p \in Procs |-> "none"]
    /\ status = [p \in Procs |-> [ood |-> FALSE, version |-> <<>>]]
    /\ dlRet = [p \in Procs |-> FALSE]
    /\ err = [p \in Procs |-> "none"]
    /\ pre = [p \in Procs |-> fs]
    /\ trace = [p \in Procs |-> <<>>]
    /\ opsLeft = [p \in Procs |-> MaxOps]

\* The homes of the lifecycle runs: a fresh one without profile files, and
\* a used one whose profile files hold a line of something else, whose
\* .bashrc cannot be written and where an interrupted run left a partial
\* archive.
FreshProfiles == [n \in ProfileFiles |-> AbsentFile]
UsedProfiles == [n \in ProfileFiles |-> FileOf(<<Hash, NL>>)]

\* The lifecycle: one caller, any platform, the interpreter there or not.
Init ==
    /\ platform \in Platforms
    /\ venvPy \in BOOLEAN
    /\ \E d \in InitDirs :
          \/ /\ fs = MakeFS(d, FreshHome, "none", FreshProfiles)
             /\ denied = {}
          \/ /\ fs = MakeFS(d, UsedHome, "partial", UsedProfiles)
             /\ denied = {".bashrc"}
    /\ manifest \in Releases
    /\ active_cli \in ActiveVersions
    /\ versionArg = <<>>
    /\ InitCallers({"A"})

Next ==
    \E p \in Procs :
        \/ InstallCall(p)
        \/ CheckCall(p)
        \/ UpdateStart(p)
        \/ UpdateInstall(p)
        \/ BootStart(p)
        \/ BootInstall1(p)
        \/ BootInstall2(p)
        \/ BootLaunch(p)
        \/ DlRmtree(p)
        \/ DlFetch(p)
        \/ DlExtract(p)
        \/ DlRemove(p)
        \/ DlExcept(p)

Spec == Init /\ [][Next]_vars

\* Wrapper installation alone: install_moondream_cli called again and again
\* on a home whose profile files are absent or hold one text of at most
\* MaxLen tokens, with at most one of them unreadable.
ProfileChoices ==
    {{}, ProfileFiles} \cup {{n} : n \in ProfileFiles}

InitWrapper ==
    /\ platform \in Platforms
    /\ venvPy \in BOOLEAN
    /\ denied \in {{}} \cup {{n} : n \in ProfileFiles}
    /\ \E d \in InitDirs, h \in {FreshHome, UsedHome},
          text \in Texts(MaxLen), present \in ProfileChoices :
            fs = MakeFS(d, h, "none",
                        [n \in ProfileFiles |->
                            IF n \in present THEN FileOf(text) ELSE AbsentFile])
    /\ manifest = [version |-> V10, url |-> U1]
    /\ active_cli = V10
    /\ versionArg = <<>>
    /\ InitCallers({"A"})

NextWrapper == \E p \in Procs : InstallCall(p)

SpecWrapper == InitWrapper /\ [][NextWrapper]_vars

\* ---------------------------------------------------------- parse_version
\* The characters of the arguments: prefixes, digits, the separator and a
\* letter that is neither.
VersionChars == {"v", "V", "x", ".", "0", "1", "2"}

RECURSIVE VersionTexts(_)
\* Every string of at most k of these characters.
VersionTexts(k) ==
    IF k = 0 THEN {<<>>}
    ELSE LET shorter == VersionTexts(k - 1)
         IN  shorter \cup {Append(t, c) : t \in shorter, c \in VersionChars}

\* An installed home where nothing is running.
QuietFS ==
    MakeFS([dirExists |-> TRUE, files |-> [n \in FileNames |-> U0]],
           FreshHome, "none", FreshProfiles)

\* parse_version(versionArg), called once.
ParseCall ==
    /\ ~parsed.called
    /\ parsed' = [called |-> TRUE,
                  ok |-> parse_version(versionArg).ok,
                  tuple |-> parse_version(versionArg).tuple]
    /\ UNCHANGED <<platform, venvPy, denied, fs, manifest, active_cli,
                   callers, pc, op, prev, url, status, dlRet, err, pre,
                   trace, opsLeft, versionArg>>

InitParse ==
    /\ platform = "Linux"
    /\ venvPy = TRUE
    /\ denied = {}
    /\ fs = QuietFS
    /\ manifest = [version |-> V10, url |-> U1]
    /\ active_cli = V10
    /\ versionArg \in VersionTexts(MaxVersionLen)
    /\ InitCallers({})

NextParse == ParseCall

SpecParse == InitParse /\ [][NextParse]_vars

\* ------------------------------------------------ comparing two versions
VersionDigits == {"0", "1", "2"}

RECURSIVE Dotted(_)
\* The version strings of exactly k one-digit components.
Dotted(k) ==
    IF k = 1 THEN {<<d>> : d \in VersionDigits}
    ELSE {v \o <<".", d>> : v \in Dotted(k - 1), d \in VersionDigits}

DottedVersions == UNION {Dotted(k) : k \in 1..MaxParts}

\* check_for_update on any two such versions.
InitCompare ==
    /\ platform = "Linux"
    /\ venvPy = TRUE
    /\ denied = {}
    /\ fs = QuietFS
    /\ \E v \in DottedVersions : manifest = [version |-> v, url |-> U1]
    /\ active_cli \in DottedVersions
    /\ versionArg = <<>>
    /\ InitCallers({"A"})

NextCompare == \E p \in Procs : CheckCall(p)

SpecCompare == InitCompare /\ [][NextCompare]_vars

\* ------------------------------------------------- two update() at once
\* Two callers on one installed home, each with one update() to make; the
\* steps of the two interleave freely, as nothing in update() takes a lock.
InitConcurrent ==
    /\ platform = "Linux"
    /\ venvPy = TRUE
    /\ denied = {}
    /\ fs = QuietFS
    /\ manifest = [version |-> V10, url |-> U1]
    /\ active_cli = V10
    /\ versionArg = <<>>
    /\ parsed = NotParsed
    /\ callers = Procs
    /\ pc = [p \in Procs |-> "idle"]
    /\ op = [p \in Procs |-> "none"]
    /\ prev = [p \in Procs |-> [op |-> "none", end |-> "idle"]]
    /\ url = [p \in Procs |-> "none"]
    /\ status = [p \in Procs |-> [ood |-> FALSE, version |-> <<>>]]
    /\ dlRet = [p \in Procs |-> FALSE]
    /\ err = [p \in Procs |-> "none"]
    /\ pre = [p \in Procs |-> fs]
    /\ trace = [p \in Procs |-> <<>>]
    /\ opsLeft = [p \in Procs |-> 1]

NextConcurrent ==
    \E p \in Procs :
        \/ UpdateStart(p)
        \/ DlRmtree(p)
        \/ DlFetch(p)
        \/ DlExtract(p)
        \/ DlRemove(p)
        \/ DlExcept(p)
        \/ UpdateInstall(p)

SpecConcurrent == InitConcurrent /\ [][NextConcurrent]_vars

\* ============================================================== claims
Has(tr, e) == \E i \in 1..Len(tr) : tr[i] = e
Last(tr) == IF tr = <<>> THEN "none" ELSE tr[Len(tr)]
Max(a, b) == IF a >= b THEN a ELSE b

\* Caller p's direct call of install_moondream_cli returned the wrapper.
Installed(p) == op[p] = "install" /\ pc[p] = "done"
\* ... and so did the call right before it, on the same inputs.
InstalledTwice(p) ==
    Installed(p) /\ prev[p] = [op |-> "install", end |-> "done"]

\* The profile files install_moondream_cli goes through on this platform.
PlatformFiles == SeqRange(PathFiles(platform))

\* C1, as stated: after two runs of install_moondream_cli on the same inputs
\* the wrapper is what the first run left and every profile file of the
\* platform holds the PATH line exactly once.
C1_Original ==
    \A p \in Procs :
        InstalledTwice(p) =>
            /\ fs.wrapper = pre[p].wrapper
            /\ \A n \in PlatformFiles :
                   /\ fs.profiles[n].exists
                   /\ CountPathLines(fs.profiles[n].text) = 1

\* C1, amended: a second run on the same inputs leaves the wrapper and every
\* profile file as the first run left them (it appends nothing), and after
\* any run every profile file of the platform that can be read and written
\* holds the PATH line: once, or as often as it held it before the run.
C1_Idempotent ==
    \A p \in Procs :
        /\ InstalledTwice(p) =>
               /\ fs.wrapper = pre[p].wrapper
               /\ fs.profiles = pre[p].profiles
        /\ Installed(p) =>
               \A n \in PlatformFiles \ denied :
                   /\ fs.profiles[n].exists
                   /\ CountPathLines(fs.profiles[n].text)
                        = Max(1, CountPathLines(pre[p].profiles[n].text))

\* C1's case: the second of two runs is over, on a home where the first run
\* appended the line to a file that held other text without a line end.
C1_Witness ==
    \E p \in Procs :
        /\ InstalledTwice(p)
        /\ \E n \in PlatformFiles :
               fs.profiles[n].text = <<Hash, NL, PathLine, NL>>

\* C2, as stated: a profile file that is absent before
\* install_moondream_cli runs is absent afterwards.
C2_Original ==
    \A p \in Procs :
        Installed(p) =>
            \A n \in PlatformFiles :
                ~pre[p].profiles[n].exists => ~fs.profiles[n].exists

\* C2, amended: install_moondream_cli creates every absent profile file of
\* the platform's list, holding the PATH line and nothing else, unless
\* opening it raises OSError; a file outside the platform's list is neither
\* created nor changed, and a file that exists only ever grows at its end.
C2_CreatesListed ==
    \A p \in Procs :
        Installed(p) =>
            \A n \in ProfileFiles :
                LET before == pre[p].profiles[n]
                    after == fs.profiles[n]
                IN  /\ n \notin PlatformFiles \/ n \in denied => after = before
                    /\ ~before.exists /\ n \in PlatformFiles \ denied =>
                           after = FileOf(<<PathLine, NL>>)
                    /\ before.exists =>
                           /\ after.exists
                           /\ Len(after.text) >= Len(before.text)
                           /\ SubSeq(after.text, 1, Len(before.text)) = before.text

\* C2's case: a run is over that started with a listed profile file absent.
C2_Witness ==
    \E p \in Procs :
        /\ Installed(p)
        /\ \E n \in PlatformFiles :
               ~pre[p].profiles[n].exists /\ fs.profiles[n].exists

\* C3: when the entry point or the interpreter is missing,
\* install_moondream_cli raises and leaves the file system (~/.local/bin,
\* the wrapper, the symlink, every profile file) as it was before the call.
C3_PreconditionsFirst ==
    \A p \in Procs :
        op[p] = "install" =>
            /\ ~CliExists(pre[p]) \/ ~venvPy =>
                   pc[p] = "raised" /\ err[p] # "none" /\ fs = pre[p]
            /\ pc[p] = "raised" => fs = pre[p]

\* C3's case: the call raised for the missing interpreter, on a home that
\* has no ~/.local/bin yet.
C3_Witness ==
    \E p \in Procs :
        /\ op[p] = "install" /\ pc[p] = "raised"
        /\ err[p] = "Python interpreter not found"
        /\ CliExists(fs) /\ ~fs.binDir

\* _download_and_extract_cli has just returned to caller p.
Returned(p) == pc[p] \in {"boot_inst1", "upd_inst"}

\* C4, as stated, in the runs that extracted the whole package: when
\* _download_and_extract_cli is over, every file of the extraction directory
\* belongs to the package just extracted.
C4_Original ==
    \A p \in Procs :
        Returned(p) /\ Has(trace[p], "extract") =>
            \A n \in FileNames :
                fs.files[n] # NoFile =>
                    fs.files[n] = url[p] /\ n \in PackageFiles(url[p])

Before(tr, a, b) ==
    \A i, j \in 1..Len(tr) : tr[i] = a /\ tr[j] = b => i < j

\* C6: update() does nothing but the refresh when active_cli is the
\* manifest's version (no fetch, no removal, no extraction, no wrapper or
\* profile write); otherwise it fetches from the URL the refreshed manifest
\* holds, extracts what it fetched and then runs install_moondream_cli.
C6_UpdateNoOpWhenCurrent ==
    \A p \in Procs :
        op[p] = "update" =>
            LET tr == trace[p]
            IN  /\ active_cli = manifest.version =>
                       pc[p] = "done" /\ fs = pre[p] /\ tr = <<"refresh">>
                /\ active_cli # manifest.version /\ Ended(p) =>
                       /\ Has(tr, "fetch") \/ Has(tr, "fetch_failed")
                       /\ url[p] = manifest.url
                       /\ Has(tr, "fetch") =>
                              Has(tr, "extract") \/ Has(tr, "extract_failed")
                       /\ Last(tr) \in {"install", "install_raised"}
                       /\ Before(tr, "fetch", "extract")
                       /\ Before(tr, "extract", "install")

\* C6's case: an update() is over that found the installation current, on
\* a home where an install would have had something to write.
C6_Witness ==
    \E p \in Procs :
        /\ op[p] = "update" /\ pc[p] = "done"
        /\ ~status[p].ood
        /\ CliExists(fs) /\ ~fs.wrapper.exists

\* C7, as stated: an update() that starts with the entry point present ends
\* with the entry point present.
C7_Original ==
    \A p \in Procs :
        op[p] = "update" /\ pc[p] \in {"done", "raised"} /\ CliExists(pre[p])
            => CliExists(fs)

\* C8: when _download_and_extract_cli has returned, <base>/moondream_cli.tar.gz
\* does not exist, whatever the download and the extraction did.
C8_NoArchiveLeft ==
    \A p \in Procs : Returned(p) => fs.tarFile = "none"

\* C8's case: the function has returned after a download that raised, on
\* a home that held no archive before.
C8_Witness ==
    \E p \in Procs :
        /\ Returned(p)
        /\ Has(trace[p], "fetch_failed")
        /\ pre[p].tarFile = "none"

LaunchEvents == {"spawn", "launch_failed", "unsupported"}

\* C10: boot() raises only out of install_moondream_cli; once the launch has
\* been tried boot() returns, whatever the launch did, and on a platform
\* other than macOS and Linux it has spawned no process.
C10_LaunchNeverRaises ==
    \A p \in Procs :
        op[p] = "boot" =>
            /\ Last(trace[p]) \in LaunchEvents =>
                   pc[p] = "done" /\ err[p] = "none"
            /\ pc[p] = "raised" =>
                   /\ Last(trace[p]) = "install_raised"
                   /\ \A e \in LaunchEvents : ~Has(trace[p], e)
            /\ platform \notin {"macOS", "Linux"} => ~Has(trace[p], "spawn")

\* C10's case: a boot() returned on an unsupported platform after both
\* installations succeeded and the launch raised.
C10_Witness ==
    \E p \in Procs :
        /\ op[p] = "boot" /\ pc[p] = "done"
        /\ platform = "other"
        /\ Has(trace[p], "install")
        /\ Last(trace[p]) = "unsupported"

InstallErrors == {"CLI file not found", "Python interpreter not found"}

FetchEvents == {"fetch", "fetch_failed"}
InstallEvents == {"install", "install_raised"}

\* C12: boot() orders its steps.  When the entry point is absent it fetches
\* from the manifest's current_cli url, and extracts what it fetched, before
\* any wrapper installation; when the entry point is present it fetches
\* nothing.  Every boot() that ends has run a wrapper installation.  The
\* launch is reached only after a wrapper installation of the same boot()
\* returned, and then the entry point exists and the wrapper exists with
\* mode 0o755.
C12_BootOrder ==
    \A p \in Procs :
        op[p] = "boot" =>
            LET tr == trace[p]
            IN  /\ ~CliExists(pre[p])
                      /\ (\E e \in InstallEvents \cup LaunchEvents : Has(tr, e))
                      => /\ \E e \in FetchEvents : Has(tr, e)
                         /\ url[p] = manifest.url
                         /\ \A f \in FetchEvents \cup {"extract", "extract_failed"},
                               e \in InstallEvents : Before(tr, f, e)
                /\ CliExists(pre[p]) =>
                      \A e \in FetchEvents \cup {"rmtree", "rmtree_failed",
                                                 "extract", "extract_failed"} :
                          ~Has(tr, e)
                /\ pc[p] \in {"done", "raised"} =>
                      \E e \in InstallEvents : Has(tr, e)
                /\ \/ pc[p] = "boot_launch"
                   \/ \E e \in LaunchEvents : Has(tr, e)
                   => /\ Has(tr, "install")
                      /\ \A e \in LaunchEvents : Before(tr, "install", e)
                      /\ CliExists(fs)
                      /\ fs.wrapper.exists
                      /\ fs.wrapper.mode = Mode755

\* C12's case: a boot() that found no entry point and no wrapper is at its
\* launch step, after a fetch, a complete extraction and two wrapper
\* installations.
C12_Witness ==
    \E p \in Procs :
        /\ op[p] = "boot" /\ pc[p] = "boot_launch"
        /\ ~CliExists(pre[p]) /\ ~pre[p].wrapper.exists
        /\ trace[p] = <<"fetch", "extract", "install", "install">>

\* C13: no step of boot(), check_for_update() or update(), whatever its
\* outcome, changes config.active_cli.
C13_ActiveCliNeverWritten == [][active_cli' = active_cli]_vars

\* C13's case: an update() that found the installation out of date has
\* fetched, extracted and installed the wrapper, and active_cli is still not
\* the manifest's version.
C13_Witness ==
    \E p \in Procs :
        /\ op[p] = "update" /\ pc[p] = "done"
        /\ Has(trace[p], "extract") /\ Has(trace[p], "install")
        /\ status[p].ood
        /\ active_cli # manifest.version

\* The step is caller p's whole check_for_update call.
CheckStep(p) == op'[p] = "check" /\ opsLeft'[p] # opsLeft[p]

\* C14: check_for_update leaves active_cli, the extraction directory, the
\* wrapper and the profile files as they were; called with update_manifest
\* false it leaves the manifest alone, and the version it reports, and
\* compares active_cli with, is the one the manifest held before the call.
C14_CheckMutatesNothing ==
    [][\A p \in Procs :
          CheckStep(p) =>
              /\ fs' = fs
              /\ active_cli' = active_cli
              /\ trace'[p] = <<>> =>
                     /\ manifest' = manifest
                     /\ status'[p] = UpdateStatus(active_cli, manifest)]_vars

\* C14's case: a check_for_update without the refresh is over, on an
\* installation that has an entry point, and reported it out of date.
C14_Witness ==
    \E p \in Procs :
        /\ op[p] = "check" /\ pc[p] = "done"
        /\ trace[p] = <<>>
        /\ status[p].ood
        /\ CliExists(fs)

\* Caller p's last operation is an update() that found the installation
\* out of date and whose download, extraction and wrapper installation all
\* succeeded.
UpdatedFromStale(p) ==
    /\ op[p] = "update" /\ pc[p] = "done"
    /\ status[p].ood
    /\ Has(trace[p], "fetch") /\ Has(trace[p], "extract")
    /\ dlRet[p]
    /\ Has(trace[p], "install")

\* The step is the start of an update() of caller p.
UpdateStep(p) == op'[p] = "update" /\ opsLeft'[p] # opsLeft[p]

\* C17, as stated: right after such an update(), with the manifest
\* unchanged, check_for_update reports out_of_date false and update()
\* returns without a fetch.
C17_Original ==
    [][\A p \in Procs :
          UpdatedFromStale(p) /\ manifest' = manifest =>
              /\ CheckStep(p) => ~status'[p].ood
              /\ UpdateStep(p) => pc'[p] = "done"]_vars

\* C17, amended: update() does not close the cycle by itself.  Right after
\* such an update(), with the manifest unchanged, check_for_update still
\* reports out_of_date true for the same version, and update() goes on to
\* its download again.
C17_StillStaleAfterUpdate ==
    [][\A p \in Procs :
          UpdatedFromStale(p) /\ manifest' = manifest =>
              /\ CheckStep(p) =>
                     /\ status'[p].ood
                     /\ status'[p].version = status[p].version
              /\ UpdateStep(p) => pc'[p] = "dl_rm"]_vars

\* C17's case: a check_for_update without the refresh came right after an
\* update() that returned from its wrapper installation, and reports the
\* installation out of date although entry point and wrapper are in place.
C17_Witness ==
    \E p \in Procs :
        /\ op[p] = "check" /\ pc[p] = "done"
        /\ prev[p] = [op |-> "update", end |-> "done"]
        /\ trace[p] = <<>>
        /\ status[p].ood
        /\ dlRet[p]
        /\ CliExists(fs) /\ fs.wrapper.exists

\* C19: a boot() that found no entry point, and whose fetch or extraction
\* failed so that the entry point is still absent, raises the missing
\* entry-point error out of the first install_moondream_cli call: it never
\* comes to a launch, and the bin directory, the wrapper, the symlink and the
\* profile files are what they were before the boot().
C19_FailedInstallRaises ==
    \A p \in Procs :
        /\ op[p] = "boot" /\ ~CliExists(pre[p])
        /\ pc[p] \notin {"dl_rm", "dl_fetch", "dl_extract", "dl_remove",
                          "dl_except", "boot_inst1"}
        /\ Has(trace[p], "fetch_failed") \/ Has(trace[p], "extract_failed")
        /\ ~CliExists(fs)
        => /\ pc[p] = "raised"
           /\ err[p] = "CLI file not found"
           /\ ~dlRet[p]
           /\ Last(trace[p]) = "install_raised"
           /\ \A e \in LaunchEvents \cup {"install"} : ~Has(trace[p], e)
           /\ fs.binDir = pre[p].binDir
           /\ fs.wrapper = pre[p].wrapper
           /\ fs.symlink = pre[p].symlink
           /\ fs.profiles = pre[p].profiles

\* C19's case: a boot() raised after a fetch that failed, on a home whose
\* interpreter is there and that had no wrapper.
C19_Witness ==
    \E p \in Procs :
        /\ op[p] = "boot" /\ pc[p] = "raised"
        /\ ~CliExists(pre[p])
        /\ Has(trace[p], "fetch_failed")
        /\ venvPy
        /\ ~fs.wrapper.exists

\* The argument without its one optional leading "v" or "V".
Unprefixed(v) ==
    IF v # <<>> /\ v[1] \in {"v", "V"} THEN SubSeq(v, 2, Len(v)) ELSE v

\* Dotted decimal: digits and dots only, with a digit at both ends and on
\* both sides of every dot.
DottedDecimal(b) ==
    /\ b # <<>>
    /\ \A i \in 1..Len(b) :
          \/ IsDigit(b[i])
          \/ b[i] = "." /\ 1 < i /\ i < Len(b) /\ IsDigit(b[i - 1])
                        /\ IsDigit(b[i + 1])

RECURSIVE Pow10(_)
Pow10(n) == IF n = 0 THEN 1 ELSE 10 * Pow10(n - 1)

RECURSIVE DecimalFrom(_, _, _)
\* The number the digits b[lo..hi] write.
DecimalFrom(b, lo, hi) ==
    IF lo > hi THEN 0
    ELSE DigitVal(b[lo]) * Pow10(hi - lo) + DecimalFrom(b, lo + 1, hi)

\* The j-th number of the dotted decimal b.
Component(b, j) ==
    LET dots == {i \in 1..Len(b) : b[i] = "."}
        dot(k) == CHOOSE i \in dots : Cardinality({d \in dots : d < i}) = k - 1
        lo == IF j = 1 THEN 1 ELSE dot(j - 1) + 1
        hi == IF j = Cardinality(dots) + 1 THEN Len(b) ELSE dot(j) - 1
    IN  DecimalFrom(b, lo, hi)

\* C16: parse_version drops exactly one optional leading "v" or "V", and
\* returns a tuple exactly when what is left is dotted decimal: one integer
\* for each dot-separated segment, in order.  With a segment that is not a
\* number (an empty one, or one that starts with a second prefix character)
\* it raises and returns no tuple.
C16_ParseVersion ==
    parsed.called =>
        LET b == Unprefixed(versionArg)
        IN  /\ parsed.ok <=> DottedDecimal(b)
            /\ ~parsed.ok => parsed.tuple = <<>>
            /\ parsed.ok =>
                   /\ Len(parsed.tuple) =
                          Cardinality({i \in 1..Len(b) : b[i] = "."}) + 1
                   /\ \A j \in 1..Len(parsed.tuple) :
                          parsed.tuple[j] = Component(b, j)

\* C16's case: parse_version was called on a version with two prefix
\* characters in front of a number, and raised.
C16_Witness ==
    /\ parsed.called
    /\ versionArg = <<"v", "V", "1">>
    /\ ~parsed.ok

\* The tuple t as long as n, with zeros at its end.
Padded(t, n) == [i \in 1..n |-> IF i <= Len(t) THEN t[i] ELSE 0]
\* t is before u once the shorter of the two is padded with zeros.
PaddedLess(t, u) ==
    LET n == Max(Len(t), Len(u)) IN TupleLess(Padded(t, n), Padded(u, n))

\* C15, as stated: versions compare by their tuples with the shorter one
\* padded with zeros, so check_for_update finds two versions different
\* exactly when one of them is before the other in that ordering, and "1.2"
\* and "1.2.0" are the same version.
C15_Original ==
    \A p \in Procs :
        op[p] = "check" /\ pc[p] = "done" =>
            LET a == parse_version(active_cli).tuple
                m == parse_version(status[p].version).tuple
            IN  status[p].ood <=> PaddedLess(a, m) \/ PaddedLess(m, a)

RemovalEvents == {"rmtree", "rmtree_failed"}
FailureEvents == {"rmtree_failed", "fetch_failed", "extract_failed"}

\* C18: two update() invocations are not kept apart.  An update() whose
\* _download_and_extract_cli returned True, so that the entry point was
\* there when it returned, finds no entry point at its wrapper installation,
\* or has raised the missing entry-point error there, only when another
\* invocation has removed the extraction directory meanwhile.
C18_RemovedByTheOther ==
    \A p \in Procs :
        /\ op[p] = "update" /\ dlRet[p]
        /\ \/ pc[p] = "upd_inst" /\ ~CliExists(fs)
           \/ pc[p] = "raised" /\ err[p] = "CLI file not found"
        => \E q \in callers \ {p} :
               /\ op[q] = "update"
               /\ \E e \in RemovalEvents : Has(trace[q], e)

\* C18's case: one update() removed, fetched, extracted and was told by
\* _download_and_extract_cli that the entry point is there, and then raised
\* the missing entry-point error from its wrapper installation, because
\* the other update() had removed the directory; no removal, download or
\* extraction of either invocation failed.
C18_Witness ==
    \E p \in Procs, q \in Procs :
        /\ p # q
        /\ op[p] = "update" /\ pc[p] = "raised"
        /\ err[p] = "CLI file not found"
        /\ dlRet[p]
        /\ trace[p] = <<"refresh", "rmtree", "fetch", "extract",
                        "install_raised">>
        /\ op[q] = "update"
        /\ Has(trace[q], "rmtree")
        /\ \A e \in FailureEvents : ~Has(trace[q], e)

====
